---------------------------- MODULE Spec2Model ----------------------------
(***************************************************************************)
(* Model of universal_mcp_domain_checker/app.py: DomainCheckerApp.         *)
(*                                                                         *)
(* A Python str is a sequence of one-character strings, so that split('.') *)
(* and lower() are computed character by character.  The network (the DNS  *)
(* resolver and the RDAP server) is the environment: each lookup's outcome *)
(* is drawn when the lookup is issued.  One action is one lookup together  *)
(* with all the code that runs until the next lookup is issued or the tool *)
(* returns.                                                                *)
(***************************************************************************)
EXTENDS Naturals, Sequences, FiniteSets

VARIABLES
    tool,        \* the tool being run: "none", "check_domain_tool", "check_tlds_tool"
    arg,         \* the tool's argument (domain or keyword)
    pc,          \* "idle", "resolve_A", "resolve_NS", "rdap_get", "loop", "returned"
    domain,      \* the domain being checked
    has_dns,     \* local has_dns (meaningful once check_dns has returned)
    rdap_data,   \* what get_rdap_data returned for `domain` (None before it has)
    rdap_url,    \* the URL of the RDAP request made for `domain`
    queries,     \* the lookups issued for `domain`, in order: [q, ok]
    response,    \* what requests.get came back with for `domain`
    idx,         \* check_tlds_tool: position of the for loop in TOP_TLDS
    available,   \* check_tlds_tool: local list available
    taken,       \* check_tlds_tool: local list taken
    result       \* what the tool gave back to its caller

vars == <<tool, arg, pc, domain, has_dns, rdap_data, rdap_url, queries,
          response, idx, available, taken, result>>

-----------------------------------------------------------------------------
(* Strings *)

\* Largest number of dot-separated labels of a domain given to check_domain_tool.
MaxLabels == 2

\* str.lower() on one character.
LowerChar(c) ==
    CASE c = "A" -> "a" [] c = "B" -> "b" [] c = "C" -> "c" [] c = "D" -> "d"
      [] c = "E" -> "e" [] c = "F" -> "f" [] c = "G" -> "g" [] c = "H" -> "h"
      [] c = "I" -> "i" [] c = "J" -> "j" [] c = "K" -> "k" [] c = "L" -> "l"
      [] c = "M" -> "m" [] c = "N" -> "n" [] c = "O" -> "o" [] c = "P" -> "p"
      [] c = "Q" -> "q" [] c = "R" -> "r" [] c = "S" -> "s" [] c = "T" -> "t"
      [] c = "U" -> "u" [] c = "V" -> "v" [] c = "W" -> "w" [] c = "X" -> "x"
      [] c = "Y" -> "y" [] c = "Z" -> "z" [] OTHER -> c

\* str.lower()
Lower(s) == [k \in 1..Len(s) |-> LowerChar(s[k])]

\* str.split(sep): the list of the pieces between the separators (never empty).
RECURSIVE SplitFrom(_, _, _, _)
SplitFrom(s, sep, k, cur) ==
    IF k > Len(s) THEN <<cur>>
    ELSE IF s[k] = sep THEN <<cur>> \o SplitFrom(s, sep, k + 1, <<>>)
    ELSE SplitFrom(s, sep, k + 1, Append(cur, s[k]))

Split(s, sep) == SplitFrom(s, sep, 1, <<>>)

\* DotJoin without the dot: f"{keyword}{tld}".
DotJoinNoDot(a, b) == a \o b

\* f"{keyword}.{tld}"
DotJoin(a, b) == a \o <<".">> \o b

-----------------------------------------------------------------------------
(* Constants of app.py *)

TOP_TLDS ==
    << <<"c","o","m">>, <<"n","e","t">>, <<"o","r","g">>, <<"i","o">>,
       <<"c","o">>, <<"a","p","p">>, <<"d","e","v">>, <<"a","i">>,
       <<"m","e">>, <<"i","n","f","o">>, <<"x","y","z">>,
       <<"o","n","l","i","n","e">>, <<"s","i","t","e">>, <<"t","e","c","h">> >>

\* Python's None, as a value of the same shape as a parsed JSON value.
None == [type |-> "None", keys |-> {}, len |-> 0, entities |-> <<>>, events |-> <<>>]

\* The result fields that are None in the "Available" result.
NoneField == "<None>"
\* A key a result dictionary does not have.
Absent == "<absent>"

-----------------------------------------------------------------------------
(* get_rdap_data: choice of the RDAP server *)

\* RdapUrl with the label compared as written, without lower().
RdapUrlCaseSensitive(d) ==
    LET parts == Split(d, ".")
        tld == parts[Len(parts)]
    IN  IF tld \in { <<"c","h">>, <<"l","i">> }
        THEN [prefix |-> "https://rdap.nic.", tld |-> tld,
              path |-> "/domain/", domain |-> d]
        ELSE IF tld \in { <<"c","o","m">>, <<"n","e","t">> }
        THEN [prefix |-> "https://rdap.verisign.com/", tld |-> tld,
              path |-> "/v1/domain/", domain |-> d]
        ELSE IF tld = <<"o","r","g">>
        THEN [prefix |-> "https://rdap.publicinterestregistry.org/rdap/domain/",
              tld |-> <<>>, path |-> "", domain |-> d]
        ELSE [prefix |-> "https://rdap.org/domain/",
              tld |-> <<>>, path |-> "", domain |-> d]

\* The request URL is prefix + tld + path + domain (tld and path are empty
\* where the f-string has no {tld}).
RdapUrl(d) ==
    LET parts == Split(d, ".")
        tld == Lower(parts[Len(parts)])
    IN  IF tld \in { <<"c","h">>, <<"l","i">> }
        THEN [prefix |-> "https://rdap.nic.", tld |-> tld,
              path |-> "/domain/", domain |-> d]
        ELSE IF tld \in { <<"c","o","m">>, <<"n","e","t">> }
        THEN [prefix |-> "https://rdap.verisign.com/", tld |-> tld,
              path |-> "/v1/domain/", domain |-> d]
        ELSE IF tld = <<"o","r","g">>
        THEN [prefix |-> "https://rdap.publicinterestregistry.org/rdap/domain/",
              tld |-> <<>>, path |-> "", domain |-> d]
        ELSE [prefix |-> "https://rdap.org/domain/",
              tld |-> <<>>, path |-> "", domain |-> d]

\* No request has been made.
NoUrl == [prefix |-> "", tld |-> <<>>, path |-> "", domain |-> <<>>]

-----------------------------------------------------------------------------
(* Parsed JSON values (response.json())                                    *)
(*                                                                         *)
(* type: "None" (JSON null), "array", "string", "number", "bool", "object" *)
(* len : number of elements of an array, length of a string, value of a    *)
(*       number, 1/0 for true/false                                        *)
(* keys: the keys of an object; entities and events are the values of the  *)
(*       keys "entities" and "events" when the object has them.            *)
(* An entity is [roles, vcardArray]; vcardArray is a list of items, each   *)
(* either a list of entries or something else; an entry is a list of       *)
(* strings.  An event is [eventAction, eventDate] (Absent: no such key).   *)

JArray(n) == [type |-> "array", keys |-> {}, len |-> n, entities |-> <<>>, events |-> <<>>]

JObject(ks, ents, evs) ==
    [type |-> "object", keys |-> ks, len |-> Cardinality(ks), entities |-> ents, events |-> evs]

VText == [isList |-> FALSE, entries |-> <<>>]
VList(es) == [isList |-> TRUE, entries |-> es]

Entity(roles, entries) == [roles |-> roles, vcardArray |-> <<VText, VList(entries)>>]

\* Truthy as an `is not None` test.
TruthyIsNotNone(x) == x.type # "None"

\* bool(x) as Python's `if x:` / `not x` compute it.
Truthy(x) ==
    CASE x.type = "None" -> FALSE
      [] x.type = "object" -> x.keys # {}
      [] OTHER -> x.len # 0

\* dict.get(key, [])
GetList(obj, key) ==
    IF key \notin obj.keys THEN <<>>
    ELSE IF key = "entities" THEN obj.entities ELSE obj.events

-----------------------------------------------------------------------------
(* The environment: what a lookup can come back with *)

\* dns.resolver.resolve(domain, rdtype): an answer, or one of its exceptions.
DnsOutcomes == {"answer", "NXDOMAIN", "NoAnswer", "Timeout"}

\* requests.get(...) raised exc.
HttpRaised(exc) == [raised |-> exc, status |-> 0, jsonOk |-> FALSE, body |-> None]

\* requests.get(...) returned a response; jsonOk: response.json() parses the body.
HttpResponse(status, jsonOk, body) ==
    [raised |-> "", status |-> status, jsonOk |-> jsonOk, body |-> body]

\* No request has come back.
NoResponse == HttpRaised("")

EmptyObject == JObject({}, <<>>, <<>>)

FullObject ==
    JObject({"objectClassName", "entities", "events"},
            << Entity({"abuse"}, << <<"fn", "{}", "text", "Abuse Desk">> >>),
               Entity({"registrar"},
                      << <<"version", "{}", "text", "4.0">>,
                         <<"fn", "{}", "text">>,
                         <<"fn", "{}", "text", "Acme Registrar">>,
                         <<"org", "{}", "text", "Acme Org">> >>) >>,
            << [eventAction |-> "registration", eventDate |-> "2020-01-01"],
               [eventAction |-> "last changed", eventDate |-> "2024-06-01"],
               [eventAction |-> "expiration", eventDate |-> "2030-01-01"] >>)

\* A registration event without eventDate, and no entities.
SparseObject ==
    JObject({"objectClassName", "events"}, <<>>,
            << [eventAction |-> "registration", eventDate |-> Absent] >>)

\* A registrar entity whose vCard holds an empty entry.
EmptyEntryObject ==
    JObject({"entities"}, << Entity({"registrar"}, << <<>> >>) >>, <<>>)

JsonBodies ==
    { None, EmptyObject, JArray(0), JArray(1), FullObject, SparseObject,
      EmptyEntryObject }

RdapResponses ==
    { HttpRaised("ConnectionError"), HttpRaised("Timeout"),
      HttpResponse(404, TRUE, FullObject), HttpResponse(200, FALSE, None) }
    \cup { HttpResponse(200, TRUE, b) : b \in JsonBodies }

-----------------------------------------------------------------------------
(* get_rdap_data and check_dns *)

\* GetRdapData without the status test.
GetRdapDataAnyStatus(resp) ==
    IF resp.raised # "" THEN None
    ELSE IF resp.jsonOk THEN resp.body ELSE None

\* The value get_rdap_data returns for what requests.get came back with.
GetRdapData(resp) ==
    IF resp.raised # "" THEN None               \* except Exception
    ELSE IF resp.status = 200
         THEN IF resp.jsonOk THEN resp.body
              ELSE None                         \* json() raised: except Exception
         ELSE None

\* check_dns after the A query: TRUE when it returns True at once.
AfterA(out) == out = "answer"

\* AfterNS returning True whatever the NS query came back with.
AfterNSAlways(out) == TRUE

\* check_dns after the NS query (issued in the outer except): its return value.
AfterNS(out) == out = "answer"

\* check_dns as a function of both outcomes (ns is read only if the A query failed).
CheckDns(a, ns) == IF AfterA(a) THEN TRUE ELSE AfterNS(ns)

-----------------------------------------------------------------------------
(* check_domain_tool: extraction and the returned dictionary *)

\* for entry in vcard[1]: the first entry named fn or org with more than 3
\* elements; entry[0] of an empty entry raises IndexError.
RECURSIVE ScanEntries(_, _)
ScanEntries(entries, k) ==
    IF k > Len(entries) THEN [kind |-> "none", val |-> ""]
    ELSE LET entry == entries[k]
         IN  IF Len(entry) = 0 THEN [kind |-> "raise", val |-> "IndexError"]
             ELSE IF entry[1] \in {"fn", "org"} /\ Len(entry) > 3
                  THEN [kind |-> "found", val |-> entry[4]]
                  ELSE ScanEntries(entries, k + 1)

\* for entity in entities: ... ; registrar is the value so far.
RECURSIVE ExtractRegistrar(_, _, _)
ExtractRegistrar(entities, k, registrar) ==
    IF k > Len(entities) THEN [exc |-> "", val |-> registrar]
    ELSE LET entity == entities[k]
             vcard == entity.vcardArray
         IN  IF "registrar" \in entity.roles /\ Len(vcard) > 1 /\ vcard[2].isList
             THEN LET r == ScanEntries(vcard[2].entries, 1)
                  IN  IF r.kind = "raise" THEN [exc |-> r.val, val |-> registrar]
                      ELSE IF r.kind = "found"
                           THEN ExtractRegistrar(entities, k + 1, r.val)
                           ELSE ExtractRegistrar(entities, k + 1, registrar)
             ELSE ExtractRegistrar(entities, k + 1, registrar)

\* event.get("eventDate", "Unknown")
EventDate(event) == IF event.eventDate = Absent THEN "Unknown" ELSE event.eventDate

\* for event in events: ... ; dates is [reg, exp] so far.
RECURSIVE ExtractDates(_, _, _)
ExtractDates(events, k, dates) ==
    IF k > Len(events) THEN dates
    ELSE LET event == events[k]
         IN  IF event.eventAction = "registration"
             THEN ExtractDates(events, k + 1, [dates EXCEPT !.reg = EventDate(event)])
             ELSE IF event.eventAction = "expiration"
             THEN ExtractDates(events, k + 1, [dates EXCEPT !.exp = EventDate(event)])
             ELSE ExtractDates(events, k + 1, dates)

NoResult ==
    [outcome |-> "none", exc |-> "", domain |-> <<>>, status |-> "",
     registrar |-> "", registration_date |-> "", expiration_date |-> "",
     has_dns |-> FALSE, rdap_data_available |-> FALSE, note |-> ""]

\* The exception exc leaves the tool.
Raise(exc) == [NoResult EXCEPT !.outcome = "raise", !.exc = exc]

Return(d, status, registrar, reg, exp, dns, rdap, note) ==
    [outcome |-> "return", exc |-> "", domain |-> d, status |-> status,
     registrar |-> registrar, registration_date |-> reg, expiration_date |-> exp,
     has_dns |-> dns, rdap_data_available |-> rdap, note |-> note]

\* if has_dns: if rdap_data: ...
RegisteredWithRdap(d, data) ==
    IF data.type # "object" THEN Raise("AttributeError")   \* no .get on list/str/int
    ELSE LET r == ExtractRegistrar(GetList(data, "entities"), 1, "Unknown")
             dates == ExtractDates(GetList(data, "events"), 1,
                                   [reg |-> "Unknown", exp |-> "Unknown"])
         IN  IF r.exc # "" THEN Raise(r.exc)
             ELSE Return(d, "Registered", r.val, dates.reg, dates.exp, TRUE, TRUE, Absent)

\* if has_dns: ... else: ...
RegisteredDnsOnly(d) ==
    Return(d, "Registered", "Unknown", "Unknown", "Unknown", TRUE, FALSE,
           "Domain has DNS records but RDAP data couldn't be retrieved")

\* if rdap_data: (DNS not found)
RegisteredRdapOnly(d, data) ==
    Return(d, "Registered", "Unknown", "Unknown", "Unknown", FALSE, TRUE,
           "Domain found in RDAP registry")

AvailableResult(d) ==
    Return(d, "Available", NoneField, NoneField, NoneField, FALSE, FALSE,
           "No DNS records or RDAP data found")

\* What check_domain_tool gives back once both helpers have returned.
CheckDomainResult(d, dns, data) ==
    IF dns
    THEN IF Truthy(data) THEN RegisteredWithRdap(d, data) ELSE RegisteredDnsOnly(d)
    ELSE IF Truthy(data) THEN RegisteredRdapOnly(d, data) ELSE AvailableResult(d)

\* check_domain_tool as a function of its argument and the three outcomes.
CheckDomainTool(d, a, ns, resp) == CheckDomainResult(d, CheckDns(a, ns), GetRdapData(resp))

-----------------------------------------------------------------------------
(* check_tlds_tool: classification and the returned dictionary *)

\* if not has_dns: (after get_rdap_data) if not rdap_data: available else taken
SweepIsAvailable(data) == ~Truthy(data)

TldsResult(keyword, av, tk) ==
    [outcome |-> "return", keyword |-> keyword, tlds_checked |-> Len(TOP_TLDS),
     available_count |-> Len(av), taken_count |-> Len(tk),
     available_domains |-> av, taken_domains |-> tk,
     tlds_checked_list |-> TOP_TLDS]

-----------------------------------------------------------------------------
(* Arguments the tools are called with *)

Labels ==
    { <<>>, <<"a">>, <<"a", "!">>, <<"i", "o">>,
      <<"c", "o", "m">>, <<"C", "o", "M">>, <<"n", "e", "t">>,
      <<"o", "r", "g">>, <<"O", "R", "G">>, <<"c", "h">>, <<"L", "I">> }

\* '.'.join(labels)
RECURSIVE JoinLabels(_)
JoinLabels(ls) ==
    IF Len(ls) = 0 THEN <<>>
    ELSE IF Len(ls) = 1 THEN ls[1]
    ELSE DotJoin(ls[1], JoinLabels(Tail(ls)))

Domains == { JoinLabels(ls) : ls \in UNION { [1..n -> Labels] : n \in 0..MaxLabels } }

Keywords == { <<"a">>, <<>> }

-----------------------------------------------------------------------------
(* The state machine *)

Init ==
    /\ tool = "none"
    /\ arg = <<>>
    /\ pc = "idle"
    /\ domain = <<>>
    /\ has_dns = FALSE
    /\ rdap_data = None
    /\ rdap_url = NoUrl
    /\ queries = <<>>
    /\ response = NoResponse
    /\ idx = 0
    /\ available = <<>>
    /\ taken = <<>>
    /\ result = NoResult

\* The log entry of a DNS query and of the RDAP request.
DnsQuery(rdtype, out) == [q |-> rdtype, ok |-> out = "answer"]
RdapQuery(resp) == [q |-> "RDAP", ok |-> resp.raised = "" /\ resp.status = 200 /\ resp.jsonOk]

\* check_domain_tool(domain) is called; it calls check_dns, which issues the A query.
InvokeCheckDomain ==
    /\ pc = "idle"
    /\ \E d \in Domains :
          /\ tool' = "check_domain_tool"
          /\ arg' = d
          /\ domain' = d
    /\ pc' = "resolve_A"
    /\ UNCHANGED <<has_dns, rdap_data, rdap_url, queries, response, idx,
                   available, taken, result>>

\* The A query comes back: check_dns returns True, or issues the NS query.
DomainResolveA ==
    /\ tool = "check_domain_tool"
    /\ pc = "resolve_A"
    /\ \E out \in DnsOutcomes :
          /\ queries' = Append(queries, DnsQuery("A", out))
          /\ IF AfterA(out)
             THEN has_dns' = TRUE /\ pc' = "rdap_get"
             ELSE has_dns' = has_dns /\ pc' = "resolve_NS"
    /\ UNCHANGED <<tool, arg, domain, rdap_data, rdap_url, response, idx,
                   available, taken, result>>

\* The NS query comes back: check_dns returns; get_rdap_data sends its request.
DomainResolveNS ==
    /\ tool = "check_domain_tool"
    /\ pc = "resolve_NS"
    /\ \E out \in DnsOutcomes :
          /\ queries' = Append(queries, DnsQuery("NS", out))
          /\ has_dns' = AfterNS(out)
    /\ pc' = "rdap_get"
    /\ UNCHANGED <<tool, arg, domain, rdap_data, rdap_url, response, idx,
                   available, taken, result>>

\* DomainRdap asking RDAP again when DNS found nothing and RDAP gave nothing.
DomainRdapRetry ==
    /\ tool = "check_domain_tool"
    /\ pc = "rdap_get"
    /\ \E resp \in RdapResponses :
          /\ rdap_url' = RdapUrl(domain)
          /\ response' = resp
          /\ queries' = Append(queries, RdapQuery(resp))
          /\ rdap_data' = GetRdapData(resp)
          /\ IF ~has_dns /\ ~Truthy(GetRdapData(resp))
             THEN result' = result /\ pc' = "rdap_get"
             ELSE /\ result' = CheckDomainResult(domain, has_dns, GetRdapData(resp))
                  /\ pc' = "returned"
    /\ UNCHANGED <<tool, arg, domain, has_dns, idx, available, taken>>

\* The RDAP request comes back: get_rdap_data returns and check_domain_tool
\* builds its result (either branch) and returns it.
DomainRdap ==
    /\ tool = "check_domain_tool"
    /\ pc = "rdap_get"
    /\ \E resp \in RdapResponses :
          /\ rdap_url' = RdapUrl(domain)
          /\ response' = resp
          /\ queries' = Append(queries, RdapQuery(resp))
          /\ rdap_data' = GetRdapData(resp)
          /\ result' = CheckDomainResult(domain, has_dns, GetRdapData(resp))
    /\ pc' = "returned"
    /\ UNCHANGED <<tool, arg, domain, has_dns, idx, available, taken>>

\* check_tlds_tool(keyword) is called: the three lists are empty.
InvokeCheckTlds ==
    /\ pc = "idle"
    /\ \E k \in Keywords :
          /\ tool' = "check_tlds_tool"
          /\ arg' = k
    /\ pc' = "loop"
    /\ idx' = 0
    /\ available' = <<>>
    /\ taken' = <<>>
    /\ UNCHANGED <<domain, has_dns, rdap_data, rdap_url, queries, response, result>>

\* for tld in TOP_TLDS: the next domain; check_dns issues its A query.
\* rdap_data, rdap_url and response describe the current domain: the value the
\* previous iteration left in rdap_data is never read before it is assigned again.
SweepNext ==
    /\ tool = "check_tlds_tool"
    /\ pc = "loop"
    /\ idx < Len(TOP_TLDS)
    /\ idx' = idx + 1
    /\ domain' = DotJoin(arg, TOP_TLDS[idx + 1])
    /\ queries' = <<>>
    /\ rdap_data' = None
    /\ rdap_url' = NoUrl
    /\ response' = NoResponse
    /\ pc' = "resolve_A"
    /\ UNCHANGED <<tool, arg, has_dns, available, taken, result>>

\* The A query comes back: with an answer the domain is taken.
SweepResolveA ==
    /\ tool = "check_tlds_tool"
    /\ pc = "resolve_A"
    /\ \E out \in DnsOutcomes :
          /\ queries' = Append(queries, DnsQuery("A", out))
          /\ IF AfterA(out)
             THEN /\ has_dns' = TRUE
                  /\ taken' = Append(taken, domain)
                  /\ pc' = "loop"
             ELSE /\ has_dns' = has_dns
                  /\ taken' = taken
                  /\ pc' = "resolve_NS"
    /\ UNCHANGED <<tool, arg, domain, rdap_data, rdap_url, response, idx,
                   available, result>>

\* The NS query comes back: with an answer the domain is taken, without one
\* get_rdap_data sends its request.
SweepResolveNS ==
    /\ tool = "check_tlds_tool"
    /\ pc = "resolve_NS"
    /\ \E out \in DnsOutcomes :
          /\ queries' = Append(queries, DnsQuery("NS", out))
          /\ has_dns' = AfterNS(out)
          /\ IF AfterNS(out)
             THEN taken' = Append(taken, domain) /\ pc' = "loop"
             ELSE taken' = taken /\ pc' = "rdap_get"
    /\ UNCHANGED <<tool, arg, domain, rdap_data, rdap_url, response, idx,
                   available, result>>

\* The RDAP request comes back: the domain is available or taken.
SweepRdap ==
    /\ tool = "check_tlds_tool"
    /\ pc = "rdap_get"
    /\ \E resp \in RdapResponses :
          /\ rdap_url' = RdapUrl(domain)
          /\ response' = resp
          /\ queries' = Append(queries, RdapQuery(resp))
          /\ rdap_data' = GetRdapData(resp)
          /\ IF SweepIsAvailable(GetRdapData(resp))
             THEN available' = Append(available, domain) /\ taken' = taken
             ELSE taken' = Append(taken, domain) /\ available' = available
    /\ pc' = "loop"
    /\ UNCHANGED <<tool, arg, domain, has_dns, idx, result>>

\* The loop is over: check_tlds_tool returns its dictionary.
SweepReturn ==
    /\ tool = "check_tlds_tool"
    /\ pc = "loop"
    /\ idx = Len(TOP_TLDS)
    /\ result' = TldsResult(arg, available, taken)
    /\ pc' = "returned"
    /\ UNCHANGED <<tool, arg, domain, has_dns, rdap_data, rdap_url, queries,
                   response, idx, available, taken>>

Next ==
    \/ InvokeCheckDomain
    \/ DomainResolveA
    \/ DomainResolveNS
    \/ DomainRdap
    \/ InvokeCheckTlds
    \/ SweepNext
    \/ SweepResolveA
    \/ SweepResolveNS
    \/ SweepRdap
    \/ SweepReturn

Spec == Init /\ [][Next]_vars

\* The calls of check_domain_tool alone.
NextDomain ==
    \/ InvokeCheckDomain
    \/ DomainResolveA
    \/ DomainResolveNS
    \/ DomainRdap

SpecDomain == Init /\ [][NextDomain]_vars

-----------------------------------------------------------------------------
(* Vocabulary of the properties *)

Range(seq) == { seq[k] : k \in 1..Len(seq) }

\* The positions of the log that hold a query of the given kind.
Asked(q) == { k \in 1..Len(queries) : queries[k].q = q }

DnsAsked == Asked("A") \cup Asked("NS")

\* Some DNS query of the current domain was answered.
DnsFound == \E k \in DnsAsked : queries[k].ok

\* check_domain_tool has given its answer to the caller.
DomainReturned == tool = "check_domain_tool" /\ pc = "returned"

\* check_tlds_tool has given its answer to the caller.
TldsReturned == tool = "check_tlds_tool" /\ pc = "returned"

\* check_dns has returned for the current domain, so has_dns is its value.
DnsReturned ==
    \/ tool = "check_domain_tool" /\ pc \in {"rdap_get", "returned"}
    \/ tool = "check_tlds_tool" /\ pc = "rdap_get"
    \/ tool = "check_tlds_tool" /\ pc = "loop" /\ idx > 0

\* The RDAP request of the current domain has come back.
RdapCameBack == Asked("RDAP") # {}

\* The RDAP request failed: it raised, or the status is not 200, or the body
\* is not JSON.
RdapFailed == RdapCameBack /\ (response.raised # "" \/ response.status # 200 \/ ~response.jsonOk)

\* The RDAP request came back with status 200 and a body that parsed as JSON.
RdapParsed == RdapCameBack /\ response.raised = "" /\ response.status = 200 /\ response.jsonOk

\* A JSON value with nothing in it: null, {}, [], "", 0, false.
EmptyJson(x) == x.type = "None" \/ x.len = 0

-----------------------------------------------------------------------------
(* C1 *)

\* C1: check_domain_tool returns a dictionary whose domain is the argument and
\* whose status is "Available" exactly when no DNS query was answered and the
\* RDAP fetch gave no data, and "Registered" in every other case.
C1_StatusIff ==
    DomainReturned =>
        /\ result.outcome = "return"
        /\ result.domain = arg
        /\ result.status = "Available" <=> (~DnsFound /\ (RdapFailed \/ EmptyJson(response.body)))
        /\ result.status # "Available" => result.status = "Registered"

-----------------------------------------------------------------------------
(* C2 *)

\* The names the RDAP data gives its registrar-role entities.
RegistrarNames(data) ==
    { e[4] : e \in { e \in UNION { Range(v.entries) :
                                     v \in UNION { Range(ent.vcardArray) :
                                                   ent \in { x \in Range(data.entities) :
                                                             "registrar" \in x.roles } } } :
                     Len(e) > 3 /\ e[1] \in {"fn", "org"} } }

\* The dates the RDAP data gives for the events of one action.
EventDates(data, action) ==
    { ev.eventDate : ev \in { x \in Range(data.events) :
                              x.eventAction = action /\ x.eventDate # Absent } }

\* C2: a result that says RDAP data was obtained carries the registrar name,
\* the registration date and the expiration date that the data holds, in every
\* branch that reports the domain as Registered.
C2_MetadataCarried ==
    (DomainReturned /\ result.outcome = "return" /\ result.rdap_data_available) =>
        /\ RegistrarNames(rdap_data) # {} => result.registrar \in RegistrarNames(rdap_data)
        /\ EventDates(rdap_data, "registration") # {} =>
               result.registration_date \in EventDates(rdap_data, "registration")
        /\ EventDates(rdap_data, "expiration") # {} =>
               result.expiration_date \in EventDates(rdap_data, "expiration")

-----------------------------------------------------------------------------
(* C3 *)

\* The k-th domain check_tlds_tool is to check: keyword.tld for the k-th TOP_TLDS entry.
SweepDomain(k) == arg \o <<".">> \o TOP_TLDS[k]

\* list[p..] is found, in order, among the domains k..n.
RECURSIVE InSweepOrderFrom(_, _, _, _)
InSweepOrderFrom(list, p, k, n) ==
    IF p > Len(list) THEN TRUE
    ELSE IF k > n THEN FALSE
    ELSE IF list[p] = SweepDomain(k) THEN InSweepOrderFrom(list, p + 1, k + 1, n)
    ELSE InSweepOrderFrom(list, p, k + 1, n)

\* The list holds domains among the first n to check, each at most once, in
\* the order of TOP_TLDS.
InSweepOrder(list, n) == InSweepOrderFrom(list, 1, 1, n)

\* C3: check_tlds_tool checks keyword.tld for the 14 entries of TOP_TLDS, each
\* once and in list order; available_domains and taken_domains are disjoint and
\* together exactly those domains, and the three counts agree with the lists.
C3_SweepPartition ==
    tool = "check_tlds_tool" =>
        /\ Len(TOP_TLDS) = 14
        /\ pc \in {"resolve_A", "resolve_NS", "rdap_get"} => domain = SweepDomain(idx)
        /\ Len(available) + Len(taken) = (IF pc = "loop" \/ pc = "returned" THEN idx ELSE idx - 1)
        /\ pc = "returned" =>
              /\ result.outcome = "return"
              /\ result.keyword = arg
              /\ InSweepOrder(result.available_domains, 14)
              /\ InSweepOrder(result.taken_domains, 14)
              /\ \A p \in 1..Len(result.available_domains) :
                    \A q \in 1..Len(result.taken_domains) :
                       result.available_domains[p] # result.taken_domains[q]
              /\ \A k \in 1..14 :
                    SweepDomain(k) \in Range(result.available_domains)
                                       \cup Range(result.taken_domains)
              /\ result.available_count = Len(result.available_domains)
              /\ result.taken_count = Len(result.taken_domains)
              /\ result.available_count + result.taken_count = result.tlds_checked
              /\ result.tlds_checked = 14
              /\ result.tlds_checked_list = TOP_TLDS

\* A sweep has returned with domains on both lists.
C3_Witness ==
    /\ TldsReturned
    /\ result.available_count > 0
    /\ result.taken_count > 0
    /\ result.available_count + result.taken_count = 14

-----------------------------------------------------------------------------
(* C4 *)

-----------------------------------------------------------------------------
(* C5 *)

Upper == {"A", "B", "C", "D", "E", "F", "G", "H", "I", "J", "K", "L", "M",
          "N", "O", "P", "Q", "R", "S", "T", "U", "V", "W", "X", "Y", "Z"}

\* Characters of a host name.
HostChars ==
    {"a", "b", "c", "d", "e", "f", "g", "h", "i", "j", "k", "l", "m", "n", "o", "p",
     "q", "r", "s", "t", "u", "v", "w", "x", "y", "z", "0", "1", "2", "3", "4", "5",
     "6", "7", "8", "9", "-", "."} \cup Upper

\* The argument is empty or holds a character no domain name can hold.
InvalidArgument == arg = <<>> \/ \E k \in 1..Len(arg) : arg[k] \notin HostChars

\* C5: called with an empty argument or one with invalid characters, the tool
\* raises ValueError and returns no dictionary.
C5_ValueErrorOnInvalid ==
    (pc = "returned" /\ InvalidArgument) =>
        result.outcome = "raise" /\ result.exc = "ValueError"

-----------------------------------------------------------------------------
(* C6 *)

\* C6, as claimed: in every result of check_domain_tool has_dns is what
\* check_dns returned and rdap_data_available is true exactly when the RDAP
\* request came back with status 200 and a body that parsed as JSON, whatever
\* the parsed value.
C6_AsClaimed ==
    (DomainReturned /\ result.outcome = "return") =>
        /\ result.has_dns = has_dns
        /\ result.rdap_data_available <=> RdapParsed

\* C6, amended: in every result of check_domain_tool has_dns is what check_dns
\* returned (and so says whether a DNS query was answered), and
\* rdap_data_available is true exactly when the RDAP request came back with
\* status 200 and a body that parsed to a JSON value that is not empty; null,
\* an empty object and an empty array give false.
C6_RdapAvailableIffNonEmpty ==
    (DomainReturned /\ result.outcome = "return") =>
        /\ result.has_dns = has_dns
        /\ result.has_dns <=> DnsFound
        /\ result.rdap_data_available <=> (RdapParsed /\ ~EmptyJson(response.body))

\* A result for an RDAP answer of status 200 whose body is the empty object.
C6_Witness ==
    /\ DomainReturned
    /\ result.outcome = "return"
    /\ RdapParsed
    /\ response.body = EmptyObject
    /\ ~result.rdap_data_available

-----------------------------------------------------------------------------
(* C7 *)

\* C7: check_dns asks for the A record first, asks for the NS record only
\* after the A query failed, asks nothing after an answer, and returns True
\* exactly when the A query or else the NS query was answered, so False only
\* after both failed.
C7_DnsOrder ==
    /\ Cardinality(Asked("A")) <= 1
    /\ Cardinality(Asked("NS")) <= 1
    /\ queries # <<>> => queries[1].q = "A"
    /\ \A k \in Asked("NS") : k = 2 /\ ~queries[1].ok
    /\ \A k \in DnsAsked : queries[k].ok => \A j \in DnsAsked : j <= k
    /\ DnsReturned =>
          /\ has_dns <=> (queries[1].ok \/ (Asked("NS") # {} /\ queries[2].ok))
          /\ ~has_dns => (Asked("A") = {1} /\ Asked("NS") = {2}
                          /\ ~queries[1].ok /\ ~queries[2].ok)

\* check_dns returned True on the NS answer, after the A query had failed.
C7_Witness ==
    /\ DnsReturned
    /\ Len(queries) >= 2
    /\ queries[1] = [q |-> "A", ok |-> FALSE]
    /\ queries[2] = [q |-> "NS", ok |-> TRUE]
    /\ has_dns

-----------------------------------------------------------------------------
(* C8 *)

\* C8: a call of check_domain_tool makes exactly one RDAP request, after the
\* DNS lookup is over, whatever the DNS and RDAP results: the lookups of one
\* call are at most three, in the order A, NS, RDAP.
C8_OneRdapRequest ==
    tool = "check_domain_tool" =>
        /\ Cardinality(Asked("RDAP")) <= 1
        /\ Len(queries) <= 3
        /\ \A k \in Asked("RDAP") : k = Len(queries) /\ k > 1 /\ DnsReturned
        /\ \A j, k \in 1..Len(queries) :
              j < k => <<queries[j].q, queries[k].q>> \in
                          {<<"A", "NS">>, <<"A", "RDAP">>, <<"NS", "RDAP">>}
        /\ pc = "returned" => Cardinality(Asked("RDAP")) = 1

\* A call that made all three lookups and got RDAP data back.
C8_Witness ==
    /\ DomainReturned
    /\ Len(queries) = 3
    /\ queries[3].q = "RDAP"
    /\ queries[3].ok

-----------------------------------------------------------------------------
(* C9 *)

\* The part of d after its last dot (all of d when it has none).
RECURSIVE LastLabelFrom(_, _)
LastLabelFrom(d, k) ==
    IF k = 0 THEN d
    ELSE IF d[k] = "." THEN SubSeq(d, k + 1, Len(d))
    ELSE LastLabelFrom(d, k - 1)

LastLabel(d) == LastLabelFrom(d, Len(d))

\* The upper-case letter of a lower-case one.
UpperChar(c) ==
    CASE c = "a" -> "A" [] c = "b" -> "B" [] c = "c" -> "C" [] c = "d" -> "D"
      [] c = "e" -> "E" [] c = "f" -> "F" [] c = "g" -> "G" [] c = "h" -> "H"
      [] c = "i" -> "I" [] c = "j" -> "J" [] c = "k" -> "K" [] c = "l" -> "L"
      [] c = "m" -> "M" [] c = "n" -> "N" [] c = "o" -> "O" [] c = "p" -> "P"
      [] c = "q" -> "Q" [] c = "r" -> "R" [] c = "s" -> "S" [] c = "t" -> "T"
      [] c = "u" -> "U" [] c = "v" -> "V" [] c = "w" -> "W" [] c = "x" -> "X"
      [] c = "y" -> "Y" [] c = "z" -> "Z" [] OTHER -> c

UpperStr(s) == [k \in 1..Len(s) |-> UpperChar(s[k])]

\* The server part of a request URL: everything but the domain at its end.
ServerOf(url) == <<url.prefix, url.tld, url.path>>

\* The table of the claim, by lower-cased label.
ServerFor(label) ==
    CASE label = <<"c", "h">> -> <<"https://rdap.nic.", <<"c", "h">>, "/domain/">>
      [] label = <<"l", "i">> -> <<"https://rdap.nic.", <<"l", "i">>, "/domain/">>
      [] label = <<"c", "o", "m">> ->
            <<"https://rdap.verisign.com/", <<"c", "o", "m">>, "/v1/domain/">>
      [] label = <<"n", "e", "t">> ->
            <<"https://rdap.verisign.com/", <<"n", "e", "t">>, "/v1/domain/">>
      [] label = <<"o", "r", "g">> ->
            <<"https://rdap.publicinterestregistry.org/rdap/domain/", <<>>, "">>
      [] OTHER -> <<"https://rdap.org/domain/", <<>>, "">>

\* C9: the RDAP server of a request is the one the table gives for the
\* lower-cased last label of the domain, rdap.org for every label the table
\* does not name, and it does not depend on the letter case of the domain.
C9_ServerByLastLabel ==
    rdap_url # NoUrl =>
        /\ rdap_url.domain = domain
        /\ ServerOf(rdap_url) = ServerFor(Lower(LastLabel(domain)))
        /\ ServerOf(RdapUrl(UpperStr(domain))) = ServerOf(rdap_url)
        /\ ServerOf(RdapUrl(Lower(domain))) = ServerOf(rdap_url)

\* A request for a domain whose last label is CoM went to the com server.
C9_Witness ==
    /\ rdap_url # NoUrl
    /\ LastLabel(domain) = <<"C", "o", "M">>
    /\ rdap_url.prefix = "https://rdap.verisign.com/"
    /\ rdap_url.tld = <<"c", "o", "m">>

-----------------------------------------------------------------------------
(* C10 *)

\* The outcomes a, ns, resp agree with what the lookups made for the current
\* domain came back with (a lookup that was not made may come back with anything).
AgreesWithLookups(a, ns, resp) ==
    /\ (a = "answer") = queries[1].ok
    /\ Asked("NS") # {} => (ns = "answer") = queries[2].ok
    /\ RdapCameBack => resp = response

\* C10: under one assignment of DNS and RDAP outcomes the sweep puts keyword.tld
\* on available_domains exactly when check_domain_tool on keyword.tld returns
\* "Available" and on taken_domains exactly when it returns "Registered"; the
\* sweep asks RDAP only for a domain whose DNS lookup found nothing.
C10_SweepAgreesWithCheck ==
    (tool = "check_tlds_tool" /\ pc = "loop" /\ idx > 0) =>
        /\ RdapCameBack => ~has_dns
        /\ \A a \in DnsOutcomes, ns \in DnsOutcomes, resp \in RdapResponses :
              AgreesWithLookups(a, ns, resp) =>
                 LET r == CheckDomainTool(domain, a, ns, resp)
                 IN  /\ domain \in Range(available) <=>
                           (r.outcome = "return" /\ r.status = "Available")
                     /\ domain \in Range(taken) <=>
                           (r.outcome = "return" /\ r.status = "Registered")

=============================================================================
